---- MODULE Spec2Model ----
(***************************************************************************)
(* A model of src/main.py: the VDA status report task.                     *)
(*                                                                         *)
(* The module body of main.py defines vda_status_task twice (lines 158     *)
(* and 212).  Python binds the name to the later definition, so the task   *)
(* that `__main__` runs is the one at lines 212-234; that is the one       *)
(* modelled here.                                                          *)
(*                                                                         *)
(* Python values are tagged records (PyNone, PyStr, PyInt, PyBool,         *)
(* PyDict); a dict is a function whose DOMAIN is its key set, so a key     *)
(* that is absent is really absent.  A Python exception leaving a pure     *)
(* function is the result [ok |-> FALSE, exc |-> <name>].  The HTML text   *)
(* of the report is the sequence of the pieces the code concatenates.      *)
(***************************************************************************)
EXTENDS Integers, Sequences, FiniteSets, TLC

\* ------------------------------------------------------------- bounds
\* Number of configured tenants (CUSTOMER_ID_1 .. CUSTOMER_ID_n), at most.
MaxTenants == 3
\* Length of the EMAIL_RECIPIENTS value, in characters, at most.
MaxEnvLen == 3
\* Length of one tenant's Items list in GroupSpec, at most.
MaxItems == 4
\* Largest SessionCount drawn in RowSpec.
MaxSessionCount == 2

\* ------------------------------------------------------ python values
PyNone == [t |-> "None"]
PyStr(s) == [t |-> "str", s |-> s]
PyInt(n) == [t |-> "int", n |-> n]
PyBool(b) == [t |-> "bool", b |-> b]
PyDict(d) == [t |-> "dict", d |-> d]

EmptyDict == << >>

\* dict.get(key, default)
Get(d, key, default) == IF key \in DOMAIN d THEN d[key] ELSE default

Digit == <<"0", "1", "2", "3", "4", "5", "6", "7", "8", "9">>

RECURSIVE IntToStr(_)
\* str(n) of a non-negative int
IntToStr(n) ==
    IF n < 10 THEN Digit[n + 1]
    ELSE IntToStr(n \div 10) \o Digit[(n % 10) + 1]

\* What an f-string replacement field {v} writes: str(v).
Format(v) ==
    CASE v.t = "str" -> v.s
      [] v.t = "int" -> IntToStr(v.n)
      [] v.t = "bool" -> (IF v.b THEN "True" ELSE "False")
      [] v.t = "None" -> "None"
      [] v.t = "dict" -> "{}"

\* bool(v), as `X if v else Y` evaluates it
Truthy(v) ==
    CASE v.t = "str" -> v.s # ""
      [] v.t = "int" -> v.n # 0
      [] v.t = "bool" -> v.b
      [] v.t = "None" -> FALSE
      [] v.t = "dict" -> DOMAIN v.d # {}

Ok(v) == [ok |-> TRUE, val |-> v]
Raise(e) == [ok |-> FALSE, exc |-> e]

\* ------------------------------------------------------ create_report
\* The pieces of HTML text the report is concatenated from.
H2(text) == [e |-> "h2", text |-> text, cells |-> << >>]
H3(text) == [e |-> "h3", text |-> text, cells |-> << >>]
TableHead == [e |-> "table", text |-> "", cells |-> << >>]
Tr(cells) == [e |-> "tr", text |-> "", cells |-> cells]
TableEnd == [e |-> "/table", text |-> "", cells |-> << >>]

\* item.get('MachineCatalog', {}).get('Name', 'Unknown')
CatalogOf(item) ==
    LET mc == Get(item, "MachineCatalog", PyDict(EmptyDict))
    IN  IF mc.t # "dict" THEN Raise("AttributeError")
        ELSE Ok(Get(mc.d, "Name", PyStr("Unknown")))

\* Position of key in the insertion-ordered dict machine_catalogs, 0 if absent.
IndexOfKey(machine_catalogs, key) ==
    IF \E k \in 1..Len(machine_catalogs) : machine_catalogs[k].key = key
    THEN CHOOSE k \in 1..Len(machine_catalogs) : machine_catalogs[k].key = key
    ELSE 0

\* The catalog names in sorted order.
SortedCatalogs == << "A", "B", "C", "Unknown" >>
CatalogRank(key) == CHOOSE r \in 1..Len(SortedCatalogs) : SortedCatalogs[r] = key.s

\* GroupStep as it would be with the groups kept sorted by catalog name.
GroupStepSorted(machine_catalogs, key, item) ==
    LET k == IndexOfKey(machine_catalogs, key)
        Before(g) == CatalogRank(g.key) < CatalogRank(key)
        After(g) == CatalogRank(g.key) > CatalogRank(key)
    IN  IF k = 0
        THEN SelectSeq(machine_catalogs, Before)
               \o << [key |-> key, items |-> <<item>>] >>
               \o SelectSeq(machine_catalogs, After)
        ELSE [machine_catalogs EXCEPT ![k].items = Append(@, item)]

\* GroupStep as it would be without the `not in` test: the list of a catalog
\* is started afresh at each of its records.
GroupStepOverwrite(machine_catalogs, key, item) ==
    LET k == IndexOfKey(machine_catalogs, key)
    IN  IF k = 0
        THEN Append(machine_catalogs, [key |-> key, items |-> <<item>>])
        ELSE [machine_catalogs EXCEPT ![k].items = <<item>>]

\* One turn of the grouping loop: a key not yet in machine_catalogs is
\* inserted last with an empty list, and the item is appended to its list.
GroupStep(machine_catalogs, key, item) ==
    LET k == IndexOfKey(machine_catalogs, key)
    IN  IF k = 0
        THEN Append(machine_catalogs, [key |-> key, items |-> <<item>>])
        ELSE [machine_catalogs EXCEPT ![k].items = Append(@, item)]

RECURSIVE GroupItems(_, _)
\* for item in vda_data['Items']: ...
GroupItems(items, machine_catalogs) ==
    IF items = << >> THEN Ok(machine_catalogs)
    ELSE LET c == CatalogOf(Head(items))
         IN  IF ~c.ok THEN c
             ELSE GroupItems(Tail(items),
                             GroupStep(machine_catalogs, c.val, Head(items)))

\* Multisession as it would be with `>= 1` for `> 1`.
MultisessionAtLeastOne(item) ==
    LET v == Get(item, "SessionCount", PyInt(0))
    IN  CASE v.t = "int" -> Ok(IF v.n >= 1 THEN "Yes" ELSE "No")
          [] v.t = "bool" -> Ok("No")
          [] OTHER -> Raise("TypeError")

\* multisession = 'Yes' if item.get('SessionCount', 0) > 1 else 'No'
Multisession(item) ==
    LET v == Get(item, "SessionCount", PyInt(0))
    IN  CASE v.t = "int" -> Ok(IF v.n > 1 THEN "Yes" ELSE "No")
          [] v.t = "bool" -> Ok("No")
          [] OTHER -> Raise("TypeError")

\* item.get('LastConnectionUser', {}).get('DisplayName', '')
LastConnectionUser(item) ==
    LET u == Get(item, "LastConnectionUser", PyDict(EmptyDict))
    IN  IF u.t # "dict" THEN Raise("AttributeError")
        ELSE Ok(Get(u.d, "DisplayName", PyStr("")))

\* maintenance_mode = 'Yes' if item.get('InMaintenanceMode', False) else 'No'
MaintenanceMode(item) ==
    IF Truthy(Get(item, "InMaintenanceMode", PyBool(FALSE))) THEN "Yes" ELSE "No"

\* The body of `for item in items`: the ten cells of one <tr>.
RenderRow(item) ==
    LET multisession == Multisession(item)
        last_connection_user == LastConnectionUser(item)
    IN  IF ~multisession.ok THEN multisession
        ELSE IF ~last_connection_user.ok THEN last_connection_user
        ELSE Ok(Tr(<< Format(Get(item, "Name", PyStr(""))),
                      Format(Get(item, "OSType", PyStr(""))),
                      Format(Get(item, "AllocationType", PyStr(""))),
                      Format(Get(item, "RegistrationState", PyStr(""))),
                      Format(Get(item, "SummaryState", PyStr(""))),
                      Format(Get(item, "SessionCount", PyStr(""))),
                      multisession.val,
                      Format(last_connection_user.val),
                      Format(Get(item, "FormattedLastConnectionTime", PyStr(""))),
                      MaintenanceMode(item) >>))

RECURSIVE RenderRows(_, _)
\* for item in items: report += <tr>...</tr>
RenderRows(items, out) ==
    IF items = << >> THEN Ok(out)
    ELSE LET row == RenderRow(Head(items))
         IN  IF ~row.ok THEN row
             ELSE RenderRows(Tail(items), Append(out, row.val))

RECURSIVE RenderCatalogs(_, _)
\* for machine_catalog, items in machine_catalogs.items(): ...
RenderCatalogs(machine_catalogs, out) ==
    IF machine_catalogs = << >> THEN Ok(out)
    ELSE LET g == Head(machine_catalogs)
             rows == RenderRows(g.items, << H3(Format(g.key)), TableHead >>)
         IN  IF ~rows.ok THEN rows
             ELSE RenderCatalogs(Tail(machine_catalogs),
                                 out \o Append(rows.val, TableEnd))

\* customers[customer_id]['customer_name']
CustomerName(customer_id) == "Name of " \o customer_id

\* The body of `for customer_id, vda_data in data.items()`.
RenderCustomer(customer_id, vda_data) ==
    IF "Items" \notin DOMAIN vda_data THEN Raise("KeyError")
    ELSE LET grouped == GroupItems(vda_data["Items"], << >>)
         IN  IF ~grouped.ok THEN grouped
             ELSE RenderCatalogs(grouped.val, << H2(CustomerName(customer_id)) >>)

RECURSIVE RenderData(_, _)
RenderData(data, out) ==
    IF data = << >> THEN Ok(out)
    ELSE LET section == RenderCustomer(Head(data).customer_id, Head(data).vda_data)
         IN  IF ~section.ok THEN section
             ELSE RenderData(Tail(data), out \o section.val)

\* create_report(data): data is the insertion-ordered dict customer_id -> body.
create_report(data) == RenderData(data, << >>)

\* ---------------------------------------------------- text of the env
\* A configuration value is a sequence of characters.
Chars == {"a", ",", " "}

EnvStrings == UNION {[1..n -> Chars] : n \in 0..MaxEnvLen}

\* os.getenv('EMAIL_RECIPIENTS'): None when the variable is not set.
Unset == [t |-> "None"]
EnvValues == {Unset} \cup {[t |-> "str", s |-> s] : s \in EnvStrings}

RECURSIVE Split(_, _)
\* s.split(sep) for a one-character sep: never an empty list, and the
\* pieces are kept exactly as they stand between the separators.
Split(s, sep) ==
    IF \A k \in 1..Len(s) : s[k] # sep THEN << s >>
    ELSE LET k == CHOOSE j \in 1..Len(s) :
                      s[j] = sep /\ \A h \in 1..(j - 1) : s[h] # sep
         IN  << SubSeq(s, 1, k - 1) >> \o Split(SubSeq(s, k + 1, Len(s)), sep)

RECURSIVE Join(_, _)
\* sep.join(parts)
Join(parts, sep) ==
    IF parts = << >> THEN << >>
    ELSE IF Len(parts) = 1 THEN parts[1]
    ELSE parts[1] \o sep \o Join(Tail(parts), sep)

\* ------------------------------------------------------------- state
VARIABLES
    customers,        \* the keys of the global dict customers, in insertion order
    pc,               \* where vda_status_task stands
    i,                \* position of the tenant loop in customers
    token,            \* the local variable token
    data,             \* the local dict data, insertion-ordered
    report,           \* the local variable report
    file,             \* vda_status_report.html on disk
    exchanges,        \* the HTTP requests issued and the answers received
    errors_logged,    \* customer ids passed to logging.error
    send_calls,       \* the arguments of each call of send_email
    sent,             \* the messages the SMTP server accepted
    env_recipients,   \* the value os.getenv('EMAIL_RECIPIENTS') returned
    failure           \* the exception that left vda_status_task, if any

vars == << customers, pc, i, token, data, report, file, exchanges,
           errors_logged, send_calls, sent, env_recipients, failure >>

NotBuilt == [ok |-> FALSE, exc |-> "not built"]
NotRead == [t |-> "not read"]
NoFile == [exists |-> FALSE, complete |-> FALSE, content |-> << >>]
PriorFile == [exists |-> TRUE, complete |-> TRUE,
              content |-> << H2("report of an earlier run") >>]

\* get_customer_details(): CUSTOMER_ID_1, CUSTOMER_ID_2, ... up to the first gap.
get_customer_details(n) == [k \in 1..n |-> "c" \o IntToStr(k)]

\* ------------------------------------------------- what the API answers
SampleItems ==
    << [Name |-> PyStr("m1"), SessionCount |-> PyInt(2),
        MachineCatalog |-> PyDict([Name |-> PyStr("B")])],
       [Name |-> PyStr("m2"), SessionCount |-> PyInt(1),
        MachineCatalog |-> PyDict([Name |-> PyStr("A")])] >>

\* requests.post(...) then raise_for_status() then .json(): an exception, or
\* the JSON body, which may or may not hold access_token.
TokenResponses(customer_id) ==
    { Raise("RequestException"),
      Ok(EmptyDict),
      Ok([access_token |-> PyStr("tok-" \o customer_id)]) }

\* requests.get(...) then raise_for_status() then .json()
StatusResponses ==
    { Raise("RequestException"),
      Ok(EmptyDict),
      Ok([Items |-> << >>]),
      Ok([Items |-> SampleItems]) }

\* ---------------------------------------------------- get_bearer_token
\* return response.json().get('access_token')
get_bearer_token(response) ==
    IF ~response.ok THEN response
    ELSE Ok(Get(response.val, "access_token", PyNone))

\* ------------------------------------------------------ get_vda_status
\* auth_token = f"CwsAuth bearer={token}"
AuthHeader(tok) == "CwsAuth bearer=" \o Format(tok)

\* return response.json()
get_vda_status(response) == response

\* ---------------------------------------------------------- send_email
\* smtp_configured: the four SMTP_* variables are set; smtp_up: connecting,
\* logging in and sending all succeed.
send_email(subject, body, recipients, smtp_configured, smtp_up) ==
    IF ~smtp_configured THEN Raise("ValueError")
    ELSE IF recipients = << >> THEN Raise("ValueError")
    ELSE IF ~smtp_up THEN Raise("SMTPException")
    ELSE Ok([subject |-> subject, body |-> body,
             to |-> Join(recipients, << ",", " " >>)])

\* ----------------------------------------------------- vda_status_task
\* The end of one turn of `for customer_id, details in customers.items()`.
NextCustomer ==
    /\ i' = i + 1
    /\ pc' = IF i = Len(customers) THEN "build" ELSE "token"

\* token = get_bearer_token(...); an exception is logged and the loop goes on.
TokenStep ==
    /\ pc = "token"
    /\ \E response \in TokenResponses(customers[i]) :
          LET r == get_bearer_token(response)
          IN  /\ exchanges' = Append(exchanges,
                      [customer_id |-> customers[i], request |-> "token",
                       authorization |-> "", response |-> response])
              /\ IF r.ok
                 THEN /\ token' = r.val
                      /\ pc' = "status"
                      /\ UNCHANGED << i, errors_logged >>
                 ELSE /\ errors_logged' = Append(errors_logged, customers[i])
                      /\ NextCustomer
                      /\ UNCHANGED token
    /\ UNCHANGED << customers, data, report, file, send_calls, sent,
                    env_recipients, failure >>

\* data[customer_id] = value, on an insertion-ordered dict
DictSet(d, customer_id, value) ==
    IF \E k \in 1..Len(d) : d[k].customer_id = customer_id
    THEN [k \in 1..Len(d) |->
            IF d[k].customer_id = customer_id
            THEN [customer_id |-> customer_id, vda_data |-> value] ELSE d[k]]
    ELSE Append(d, [customer_id |-> customer_id, vda_data |-> value])

\* data[customer_id] = get_vda_status(token, ...); an exception is logged.
StatusStep ==
    /\ pc = "status"
    /\ \E response \in StatusResponses :
          LET r == get_vda_status(response)
          IN  /\ exchanges' = Append(exchanges,
                      [customer_id |-> customers[i], request |-> "status",
                       authorization |-> AuthHeader(token), response |-> response])
              /\ IF r.ok
                 THEN /\ data' = DictSet(data, customers[i], r.val)
                      /\ UNCHANGED errors_logged
                 ELSE /\ errors_logged' = Append(errors_logged, customers[i])
                      /\ UNCHANGED data
              /\ NextCustomer
    /\ UNCHANGED << customers, token, report, file, send_calls, sent,
                    env_recipients, failure >>

\* report = create_report(data); an exception leaves the task.
Build ==
    /\ pc = "build"
    /\ LET r == create_report(data)
       IN  IF r.ok
           THEN /\ report' = r
                /\ pc' = "persist"
                /\ UNCHANGED failure
           ELSE /\ pc' = "Failed"
                /\ failure' = r.exc
                /\ UNCHANGED report
    /\ UNCHANGED << customers, i, token, data, file, exchanges, errors_logged,
                    send_calls, sent, env_recipients >>

\* Persist as it would be with the write wrapped in a try that only logs:
\* the task goes on to send the email whatever became of the file.
PersistKeepGoing ==
    /\ pc = "persist"
    /\ \/ UNCHANGED file
       \/ \E n \in 0..(IF report.val = << >> THEN 0 ELSE Len(report.val) - 1) :
             file' = [exists |-> TRUE, complete |-> FALSE,
                      content |-> SubSeq(report.val, 1, n)]
       \/ file' = [exists |-> TRUE, complete |-> TRUE, content |-> report.val]
    /\ pc' = "deliver"
    /\ UNCHANGED << customers, i, token, data, report, exchanges, errors_logged,
                    send_calls, sent, env_recipients, failure >>

\* with open('vda_status_report.html', 'w') as file: file.write(report)
\* open() may fail and leave the file as it was; once it has succeeded the
\* file is truncated, and a failing write leaves some proper prefix on disk.
Persist ==
    /\ pc = "persist"
    /\ \/ /\ pc' = "Failed"
          /\ failure' = "OSError"
          /\ UNCHANGED file
       \/ /\ \E n \in 0..(IF report.val = << >> THEN 0 ELSE Len(report.val) - 1) :
                file' = [exists |-> TRUE, complete |-> FALSE,
                         content |-> SubSeq(report.val, 1, n)]
          /\ pc' = "Failed"
          /\ failure' = "OSError"
       \/ /\ file' = [exists |-> TRUE, complete |-> TRUE, content |-> report.val]
          /\ pc' = "deliver"
          /\ UNCHANGED failure
    /\ UNCHANGED << customers, i, token, data, report, exchanges, errors_logged,
                    send_calls, sent, env_recipients >>

\* recipients = os.getenv('EMAIL_RECIPIENTS').split(',')
ParseRecipients(value) ==
    IF value.t = "None" THEN Raise("AttributeError")
    ELSE Ok(Split(value.s, ","))

\* recipients = ...; send_email("VDA Status Report", report, recipients); return report
Deliver ==
    /\ pc = "deliver"
    /\ \E value \in EnvValues, smtp_configured \in BOOLEAN, smtp_up \in BOOLEAN :
          LET recipients == ParseRecipients(value)
              r == send_email("VDA Status Report", report.val, recipients.val,
                              smtp_configured, smtp_up)
          IN  /\ env_recipients' = value
              /\ IF ~recipients.ok
                 THEN /\ pc' = "Failed"
                      /\ failure' = recipients.exc
                      /\ UNCHANGED << send_calls, sent >>
                 ELSE /\ send_calls' = Append(send_calls,
                              [subject |-> "VDA Status Report", body |-> report.val,
                               recipients |-> recipients.val])
                      /\ IF r.ok
                         THEN /\ sent' = Append(sent, r.val)
                              /\ pc' = "Delivered"
                              /\ UNCHANGED failure
                         ELSE /\ pc' = "Failed"
                              /\ failure' = r.exc
                              /\ UNCHANGED sent
    /\ UNCHANGED << customers, i, token, data, report, file, exchanges,
                    errors_logged >>

\* `customers = get_customer_details()` has run and vda_status_task starts.
Init ==
    /\ \E n \in 0..MaxTenants : customers = get_customer_details(n)
    /\ pc = IF customers = << >> THEN "build" ELSE "token"
    /\ i = 1
    /\ token = PyNone
    /\ data = << >>
    /\ report = NotBuilt
    /\ file \in {NoFile, PriorFile}
    /\ exchanges = << >>
    /\ errors_logged = << >>
    /\ send_calls = << >>
    /\ sent = << >>
    /\ env_recipients = NotRead
    /\ failure = "none"

Next == TokenStep \/ StatusStep \/ Build \/ Persist \/ Deliver

Spec == Init /\ [][Next]_vars

\* ------------------------------------------- create_report on its own
\* The task stands at `report = create_report(data)` after one tenant, c1,
\* answered the status request with the body [Items |-> items].
Fetched(items) ==
    /\ customers = get_customer_details(1)
    /\ pc = "build"
    /\ i = 2
    /\ token = PyStr("tok-c1")
    /\ data = << [customer_id |-> "c1", vda_data |-> [Items |-> items]] >>
    /\ report = NotBuilt
    /\ file = NoFile
    /\ exchanges =
         << [customer_id |-> "c1", request |-> "token", authorization |-> "",
             response |-> Ok([access_token |-> PyStr("tok-c1")])],
            [customer_id |-> "c1", request |-> "status",
             authorization |-> AuthHeader(PyStr("tok-c1")),
             response |-> Ok([Items |-> items])] >>
    /\ errors_logged = << >>
    /\ send_calls = << >>
    /\ sent = << >>
    /\ env_recipients = NotRead
    /\ failure = "none"

\* A JSON object with some keys left out: f gives every key a value or Absent.
Absent == [t |-> "absent"]
MkDict(f) == [k \in {key \in DOMAIN f : f[key] # Absent} |-> f[k]]

CatalogNames == {"A", "B", "C"}

\* Records that differ in their machine catalog and machine name.
GroupRecords ==
    { MkDict(f) : f \in
        [ Name : {PyStr("m1"), PyStr("m2")},
          MachineCatalog : {Absent, PyNone, PyDict(EmptyDict)}
                           \cup {PyDict([Name |-> PyStr(c)]) : c \in CatalogNames} ] }

GroupInputs == UNION {[1..n -> GroupRecords] : n \in 0..MaxItems}

TextValues == {Absent, PyNone, PyStr("x")}

\* Records of one catalog that differ in which displayed fields they hold.
RowRecords ==
    { MkDict(f) : f \in
        [ Name : {Absent, PyNone, PyStr("m1")},
          OSType : TextValues,
          AllocationType : TextValues,
          RegistrationState : TextValues,
          SummaryState : TextValues,
          SessionCount : {Absent, PyNone} \cup {PyInt(n) : n \in 0..MaxSessionCount},
          LastConnectionUser : {Absent, PyNone, PyDict(EmptyDict),
                                PyDict([DisplayName |-> PyStr("u")]),
                                PyDict([DisplayName |-> PyNone])},
          FormattedLastConnectionTime : TextValues,
          InMaintenanceMode : {Absent, PyNone, PyBool(TRUE), PyBool(FALSE)},
          MachineCatalog : {PyDict([Name |-> PyStr("A")])} ] }

RowInputs == {<< r >> : r \in RowRecords}

ReportInit == \E items \in GroupInputs \cup RowInputs : Fetched(items)

ReportNext == Build

ReportSpec == ReportInit /\ [][ReportNext]_vars

\* ------------------------------------------------ reading a report back
\* The header row of every table (<th>...</th>), in order.
Columns == << "MachineName", "OSType", "AllocationType", "RegistrationState",
              "SummaryState", "SessionCount", "Multisession",
              "LastConnectionUser", "LastConnectionTime", "MaintenanceMode" >>

Cell(row, column) == row[CHOOSE c \in 1..Len(Columns) : Columns[c] = column]

AddPiece(sections, p) ==
    LET n == Len(sections)
    IN  CASE p.e = "h2" ->
               Append(sections, [heading |-> p.text, tables |-> << >>])
          [] p.e = "h3" ->
               [sections EXCEPT ![n].tables =
                    Append(@, [catalog |-> p.text, rows |-> << >>])]
          [] p.e = "tr" ->
               LET tables == sections[n].tables
                   m == Len(tables)
               IN  [sections EXCEPT ![n].tables =
                        [tables EXCEPT ![m].rows = Append(@, p.cells)]]
          [] OTHER -> sections

RECURSIVE ParseReport(_, _)
ParseReport(pieces, sections) ==
    IF pieces = << >> THEN sections
    ELSE ParseReport(Tail(pieces), AddPiece(sections, Head(pieces)))

\* The tenant sections of a report, each with its catalog tables and rows.
Sections(pieces) == ParseReport(pieces, << >>)

\* The machine catalog a record belongs to, "Unknown" when it names none.
CatalogNameOf(item) ==
    IF /\ "MachineCatalog" \in DOMAIN item
       /\ item["MachineCatalog"].t = "dict"
       /\ "Name" \in DOMAIN item["MachineCatalog"].d
    THEN item["MachineCatalog"].d["Name"].s
    ELSE "Unknown"

RECURSIVE FirstSeen(_, _)
\* seq without its repetitions, each element where it first stands
FirstSeen(seq, seen) ==
    IF seq = << >> THEN seen
    ELSE IF \E k \in 1..Len(seen) : seen[k] = Head(seq)
         THEN FirstSeen(Tail(seq), seen)
         ELSE FirstSeen(Tail(seq), Append(seen, Head(seq)))

ItemsOf(k) == data[k].vda_data["Items"]
CatalogsOf(items) == [j \in 1..Len(items) |-> CatalogNameOf(items[j])]
TableCatalogs(section) ==
    [t \in 1..Len(section.tables) |-> section.tables[t].catalog]
InCatalog(items, c) ==
    LET Test(item) == CatalogNameOf(item) = c IN SelectSeq(items, Test)

\* The row that shows items[j]: in the table of its catalog, at the place
\* it has among the records of that catalog.
RowOfItem(section, items, j) ==
    LET c == CatalogNameOf(items[j])
        t == CHOOSE t \in 1..Len(section.tables) : section.tables[t].catalog = c
    IN  section.tables[t].rows[
            Cardinality({h \in 1..j : CatalogNameOf(items[h]) = c})]

LoopDone == pc \notin {"token", "status"}
BuildDone == pc \notin {"token", "status", "build"}

\* C6: the catalog tables of every tenant section stand in the order in
\* which each catalog name first appears among the tenant's records, and
\* the rows of each table are the records of that catalog in input order.
C6_GroupingOrder ==
    report.ok =>
        \A k \in 1..Len(data) :
            LET items == ItemsOf(k)
                section == Sections(report.val)[k]
            IN  /\ TableCatalogs(section) = FirstSeen(CatalogsOf(items), << >>)
                /\ \A t \in 1..Len(section.tables) :
                      LET expected == InCatalog(items, section.tables[t].catalog)
                      IN  section.tables[t].rows =
                            [r \in 1..Len(expected) |->
                                RenderRow(expected[r]).val.cells]

\* Records of catalogs B, A, B, C were grouped into the tables B, A, C.
C6_Witness ==
    /\ report.ok
    /\ Len(data) = 1
    /\ CatalogsOf(ItemsOf(1)) = << "B", "A", "B", "C" >>
    /\ TableCatalogs(Sections(report.val)[1]) = << "B", "A", "C" >>

\* C7: in every tenant section no catalog has two tables, and each input
\* record is one row of the table of its catalog ("Unknown" when it names
\* no catalog): as many rows as records, none dropped, none repeated.
C7_GroupingPartition ==
    report.ok =>
        \A k \in 1..Len(data) :
            LET items == ItemsOf(k)
                tables == Sections(report.val)[k].tables
                TotalRows[t \in 0..Len(tables)] ==
                    IF t = 0 THEN 0 ELSE TotalRows[t - 1] + Len(tables[t].rows)
            IN  /\ \A a, b \in 1..Len(tables) :
                      a # b => tables[a].catalog # tables[b].catalog
                /\ TotalRows[Len(tables)] = Len(items)
                /\ \A j \in 1..Len(items) :
                      LET row == RenderRow(items[j]).val.cells
                      IN  /\ \E t \in 1..Len(tables) :
                                tables[t].catalog = CatalogNameOf(items[j])
                          /\ \A t \in 1..Len(tables) :
                                Cardinality({r \in 1..Len(tables[t].rows) :
                                                tables[t].rows[r] = row})
                                = Cardinality({h \in 1..Len(items) :
                                      /\ CatalogNameOf(items[h]) = tables[t].catalog
                                      /\ RenderRow(items[h]).val.cells = row})

\* Three or more records, one of them twice and one naming no catalog, were
\* grouped, and the section holds a table "Unknown".
C7_Witness ==
    /\ report.ok
    /\ Len(data) = 1
    /\ Len(ItemsOf(1)) >= 3
    /\ \E a, b \in 1..Len(ItemsOf(1)) : a # b /\ ItemsOf(1)[a] = ItemsOf(1)[b]
    /\ \E j \in 1..Len(ItemsOf(1)) : "MachineCatalog" \notin DOMAIN ItemsOf(1)[j]
    /\ \E t \in 1..Len(Sections(report.val)[1].tables) :
          Sections(report.val)[1].tables[t].catalog = "Unknown"

\* The JSON key that feeds each displayed column.
DisplayedFields == { "Name", "OSType", "AllocationType", "RegistrationState",
                     "SummaryState", "SessionCount", "LastConnectionUser",
                     "FormattedLastConnectionTime" }

ColumnOf(field) ==
    CASE field = "Name" -> "MachineName"
      [] field = "FormattedLastConnectionTime" -> "LastConnectionTime"
      [] OTHER -> field

\* The record holds no value for the field: the key is not there, or it is
\* there with JSON null (for the user: no DisplayName, or a null one).
Missing(item, field) ==
    \/ field \notin DOMAIN item
    \/ item[field] = PyNone
    \/ /\ field = "LastConnectionUser"
       /\ item[field].t = "dict"
       /\ Get(item[field].d, "DisplayName", PyNone) = PyNone

\* Every tenant's body holds Items and every record's MachineCatalog, when
\* present, is an object: the grouping loop gets through.
CatalogsWellFormed ==
    \A k \in 1..Len(data) :
        /\ "Items" \in DOMAIN data[k].vda_data
        /\ \A j \in 1..Len(ItemsOf(k)) : CatalogOf(ItemsOf(k)[j]).ok

\* C9: create_report completes on records that lack displayed fields, and
\* the cell of every field a record holds no value for is the empty string,
\* never "None" or "null".
C9_MissingFieldsRenderEmpty ==
    (BuildDone /\ CatalogsWellFormed) =>
        /\ report.ok
        /\ \A k \in 1..Len(data) : \A j \in 1..Len(ItemsOf(k)) :
              \A field \in DisplayedFields :
                  Missing(ItemsOf(k)[j], field) =>
                      LET cell == Cell(RowOfItem(Sections(report.val)[k], ItemsOf(k), j),
                                       ColumnOf(field))
                      IN  cell = "" /\ cell \notin {"None", "null"}

\* C10: the Multisession cell of a record is "Yes" exactly when its
\* SessionCount is greater than 1 and "No" otherwise; a record without
\* SessionCount shows an empty SessionCount cell and "No".
C10_MultisessionDerivation ==
    report.ok =>
        \A k \in 1..Len(data) : \A j \in 1..Len(ItemsOf(k)) :
            LET item == ItemsOf(k)[j]
                row == RowOfItem(Sections(report.val)[k], ItemsOf(k), j)
            IN  IF "SessionCount" \in DOMAIN item
                THEN /\ item["SessionCount"].t = "int"
                     /\ Cell(row, "SessionCount") = IntToStr(item["SessionCount"].n)
                     /\ (Cell(row, "Multisession") = "Yes") <=> (item["SessionCount"].n > 1)
                     /\ (Cell(row, "Multisession") = "No") <=> (item["SessionCount"].n <= 1)
                ELSE /\ Cell(row, "SessionCount") = ""
                     /\ Cell(row, "Multisession") = "No"

\* A record with SessionCount 2 was rendered with Multisession "Yes".
C10_Witness ==
    /\ report.ok
    /\ Len(data) = 1
    /\ Len(ItemsOf(1)) = 1
    /\ Get(ItemsOf(1)[1], "SessionCount", PyNone) = PyInt(2)
    /\ Cell(Sections(report.val)[1].tables[1].rows[1], "Multisession") = "Yes"

\* --------------------------------------------------- the task as a whole
Range(seq) == {seq[k] : k \in 1..Len(seq)}

\* The token exchange of the tenant gave a token: the answer was a success
\* and its body holds access_token.
TokenObtained(customer_id) ==
    \E x \in Range(exchanges) :
        /\ x.customer_id = customer_id
        /\ x.request = "token"
        /\ x.response.ok
        /\ "access_token" \in DOMAIN x.response.val

\* The status request of the tenant was answered with a success and a body.
StatusFetched(customer_id) ==
    \E x \in Range(exchanges) :
        /\ x.customer_id = customer_id
        /\ x.request = "status"
        /\ x.response.ok

Succeeded(customer_id) == TokenObtained(customer_id) /\ StatusFetched(customer_id)

SucceededTenants == SelectSeq(customers, Succeeded)

DataKeys == [k \in 1..Len(data) |-> data[k].customer_id]

Headings(pieces) ==
    [k \in 1..Len(Sections(pieces)) |-> Sections(pieces)[k].heading]

\* The file on disk is as it was before the run.
FileUntouched == file \in {NoFile, PriorFile}

\* C1: when every configured tenant has failed, no report is built, the
\* output file is not written and send_email is not called.
C1_TotalFailureNoReport ==
    (LoopDone /\ customers # << >> /\ \A k \in 1..Len(customers) : ~Succeeded(customers[k])) =>
        /\ report = NotBuilt
        /\ FileUntouched
        /\ send_calls = << >>

\* C2: with at least one successful tenant, every tenant was attempted in
\* configured order, data holds exactly the successful tenants, the report
\* has one section per successful tenant in configured order, and the run
\* does not fail before the report is built.
C2_PartialFailure ==
    (LoopDone /\ SucceededTenants # << >>) =>
        /\ LET TokenRequest(x) == x.request = "token"
               asked == SelectSeq(exchanges, TokenRequest)
           IN  [k \in 1..Len(asked) |-> asked[k].customer_id] = customers
        /\ DataKeys = SucceededTenants
        /\ BuildDone =>
              /\ report.ok
              /\ Headings(report.val) =
                    [k \in 1..Len(SucceededTenants) |-> CustomerName(SucceededTenants[k])]

\* C3: a token answer that is a success but holds no access_token is a
\* failure for that tenant: it is logged, no status request is issued for
\* the tenant, and the tenant is not in data.
C3_MissingTokenFieldFails ==
    \A x \in Range(exchanges) :
        (x.request = "token" /\ x.response.ok /\ "access_token" \notin DOMAIN x.response.val) =>
            /\ x.customer_id \in Range(errors_logged)
            /\ pc # "status"
            /\ \A y \in Range(exchanges) :
                  ~(y.request = "status" /\ y.customer_id = x.customer_id)
            /\ x.customer_id \notin Range(DataKeys)

\* C4: in a run with a successful tenant the email is sent only after the
\* report was built and the file holds all of it; a failed open or write
\* means no call of send_email; and every failure of persisting or
\* delivering leaves the task as an exception, with nothing sent.
C4_RunOrdering ==
    data # << >> =>
        /\ pc \in {"persist", "deliver", "Delivered"} => report.ok
        /\ pc \in {"deliver", "Delivered"} =>
              file = [exists |-> TRUE, complete |-> TRUE, content |-> report.val]
        /\ send_calls # << >> =>
              /\ report.ok
              /\ file = [exists |-> TRUE, complete |-> TRUE, content |-> report.val]
              /\ \A k \in 1..Len(send_calls) : send_calls[k].body = file.content
        /\ (file.exists /\ ~file.complete) =>
              (send_calls = << >> /\ pc = "Failed" /\ failure = "OSError")
        /\ failure = "OSError" => send_calls = << >>
        /\ (send_calls # << >> /\ sent = << >>) =>
              (pc = "Failed" /\ failure \in {"ValueError", "SMTPException"})
        /\ sent # << >> <=> pc = "Delivered"
        /\ pc = "Failed" <=> failure # "none"
        /\ pc = "Failed" => sent = << >>

\* A run in which one tenant failed and another succeeded went through
\* build, write and send, with the one recipient "a".
C4_Witness ==
    /\ pc = "Delivered"
    /\ data # << >>
    /\ errors_logged # << >>
    /\ file.content = report.val
    /\ Len(sent) = 1
    /\ send_calls[1].recipients = << << "a" >> >>

\* C5: a tenant whose status answer is a success without Items counts as
\* succeeded with no machines: it is in data, create_report does not fail,
\* and its section is a heading with no catalog table.
C5_ItemsAbsentIsEmpty ==
    \A x \in Range(exchanges) :
        (x.request = "status" /\ x.response.ok /\ "Items" \notin DOMAIN x.response.val) =>
            /\ x.customer_id \in Range(DataKeys)
            /\ BuildDone =>
                  /\ report.ok
                  /\ \E k \in 1..Len(data) :
                        /\ data[k].customer_id = x.customer_id
                        /\ Sections(report.val)[k].heading = CustomerName(x.customer_id)
                        /\ Sections(report.val)[k].tables = << >>

RECURSIVE StripLeft(_)
StripLeft(s) == IF s # << >> /\ Head(s) = " " THEN StripLeft(Tail(s)) ELSE s

RECURSIVE StripRight(_)
StripRight(s) ==
    IF s # << >> /\ s[Len(s)] = " " THEN StripRight(SubSeq(s, 1, Len(s) - 1)) ELSE s

\* The comma-separated value split, each entry stripped, empty entries dropped.
CleanRecipients(s) ==
    LET parts == Split(s, ",")
        stripped == [k \in 1..Len(parts) |-> StripLeft(StripRight(parts[k]))]
        NonEmpty(entry) == entry # << >>
    IN  SelectSeq(stripped, NonEmpty)

\* C8: the recipients handed to send_email are the entries of
\* EMAIL_RECIPIENTS, stripped of surrounding whitespace, without the empty ones.
C8_RecipientParsing ==
    \A k \in 1..Len(send_calls) :
        send_calls[k].recipients = CleanRecipients(env_recipients.s)

====
